---------------------------- MODULE Spec2Model ----------------------------
(***************************************************************************)
(* Model of the AI task-suggestion client of the serverless todo API      *)
(* (src/src/layers/shared/nodejs/bedrock-client.ts), of the AI task       *)
(* processor handler that calls it, and of the create, get, list, update  *)
(* and delete handlers over the todo table and the event bus.             *)
(*                                                                         *)
(* Texts are sequences of one-character strings, so that toLowerCase,     *)
(* includes, trim, split and substring are computed character by          *)
(* character as the JavaScript string methods compute them.               *)
(***************************************************************************)
EXTENDS Integers, Sequences, FiniteSets, TLC

VARIABLES
  call,     \* the suggest/parse call in progress (one retry loop per call)
  fin,      \* input text handed to a rule-based (pure) function
  fop,      \* which rule-based function was applied to fin
  fout,     \* what it returned
  api,      \* the todo API: store, event buses, clock, last response
  calls,    \* several suggest/parse calls in progress at the same time
  stream    \* the stream consumer: the batch it was invoked with, its counters

vars == <<call, fin, fop, fout, api, calls, stream>>

(***************************************************************************)
(* Bounds of the model.                                                    *)
(***************************************************************************)
\* Input texts are concatenations of at most MaxFrags vocabulary fragments.
MaxFrags == 2
\* Remote generations are concatenations of at most MaxRespFrags fragments.
MaxRespFrags == 2
\* Suggest/parse calls in progress at the same time
NumCallers == 2
\* Stream batches hold at most MaxBatch records
MaxBatch == 3
\* Values of the limit query parameter have at most MaxLimitLen characters
MaxLimitLen == 3

(***************************************************************************)
(* JavaScript string methods, on sequences of characters.                  *)
(***************************************************************************)
UpperAZ == <<"A","B","C","D","E","F","G","H","I","J","K","L","M",
             "N","O","P","Q","R","S","T","U","V","W","X","Y","Z">>
LowerAZ == <<"a","b","c","d","e","f","g","h","i","j","k","l","m",
             "n","o","p","q","r","s","t","u","v","w","x","y","z">>

LowerChar(c) ==
  IF \E i \in 1..26 : UpperAZ[i] = c
  THEN LowerAZ[CHOOSE i \in 1..26 : UpperAZ[i] = c]
  ELSE c

\* String.prototype.toLowerCase
toLowerCase(s) == [i \in 1..Len(s) |-> LowerChar(s[i])]

\* String.prototype.includes: k occurs as a contiguous substring of s
includes(s, k) ==
  \E i \in 0..(Len(s) - Len(k)) : \A j \in 1..Len(k) : s[i + j] = k[j]

\* Array.prototype.includes on an array of strings
arrayIncludes(arr, x) == \E i \in 1..Len(arr) : arr[i] = x

MinOf(S) == CHOOSE x \in S : \A y \in S : x <= y
MaxOf(S) == CHOOSE x \in S : \A y \in S : x >= y

\* White space as matched by \s and removed by trim()
WhiteSpace == {" ", "\n", "\t"}

\* String.prototype.trim
trim(s) ==
  LET keep == {i \in 1..Len(s) : s[i] \notin WhiteSpace}
  IN  IF keep = {} THEN <<>> ELSE SubSeq(s, MinOf(keep), MaxOf(keep))

\* String.prototype.substring(from, to), indices counted from 0
substring(s, from, to) ==
  LET a == IF from > Len(s) THEN Len(s) ELSE from
      b == IF to > Len(s) THEN Len(s) ELSE to
  IN  SubSeq(s, a + 1, b)

\* String.prototype.substring(from): to the end of the string
substringFrom(s, from) == substring(s, from, Len(s))

\* The sentence terminators of the regular expression /[.!?\n]/
Terminators == {".", "!", "?", "\n"}

\* input.split(/[.!?\n]/)[0]: the text before the first terminator
splitFirst(s) ==
  LET at == {i \in 1..Len(s) : s[i] \in Terminators}
  IN  IF at = {} THEN s ELSE SubSeq(s, 1, MinOf(at) - 1)

(***************************************************************************)
(* The tables of the rule-based fallback.                                  *)
(***************************************************************************)
categoryRules ==
  << [category |-> "Shopping",
      keywords |-> << <<"b","u","y">>,
                     <<"s","h","o","p">>,
                     <<"g","r","o","c","e","r","i","e","s">>,
                     <<"p","u","r","c","h","a","s","e">>,
                     <<"o","r","d","e","r">>,
                     <<"p","i","c","k"," ","u","p">>,
                     <<"s","t","o","r","e">>,
                     <<"m","a","r","k","e","t">>,
                     <<"a","m","a","z","o","n">>,
                     <<"o","n","l","i","n","e">> >>,
      tips |-> << "Make a detailed list before shopping",
                  "Compare prices across stores",
                  "Check for coupons or deals" >>],
     [category |-> "Work",
      keywords |-> << <<"w","o","r","k">>,
                     <<"m","e","e","t","i","n","g">>,
                     <<"r","e","p","o","r","t">>,
                     <<"e","m","a","i","l">>,
                     <<"p","r","o","j","e","c","t">>,
                     <<"p","r","e","s","e","n","t","a","t","i","o","n">>,
                     <<"d","e","a","d","l","i","n","e">>,
                     <<"c","l","i","e","n","t">>,
                     <<"o","f","f","i","c","e">>,
                     <<"b","o","s","s">>,
                     <<"c","o","l","l","e","a","g","u","e">>,
                     <<"r","e","v","i","e","w">>,
                     <<"s","u","b","m","i","t">>,
                     <<"s","e","n","d">> >>,
      tips |-> << "Block focused time on your calendar",
                  "Prepare an outline first",
                  "Set a clear deadline" >>],
     [category |-> "Health",
      keywords |-> << <<"e","x","e","r","c","i","s","e">>,
                     <<"g","y","m">>,
                     <<"d","o","c","t","o","r">>,
                     <<"h","e","a","l","t","h">>,
                     <<"m","e","d","i","c","i","n","e">>,
                     <<"w","o","r","k","o","u","t">>,
                     <<"r","u","n">>,
                     <<"y","o","g","a">>,
                     <<"d","e","n","t","i","s","t">>,
                     <<"a","p","p","o","i","n","t","m","e","n","t">>,
                     <<"v","i","t","a","m","i","n">>,
                     <<"s","l","e","e","p">>,
                     <<"d","i","e","t">>,
                     <<"w","a","l","k">> >>,
      tips |-> << "Schedule at a consistent time daily",
                  "Track your progress",
                  "Start small and build up" >>],
     [category |-> "Learning",
      keywords |-> << <<"l","e","a","r","n">>,
                     <<"s","t","u","d","y">>,
                     <<"r","e","a","d">>,
                     <<"c","o","u","r","s","e">>,
                     <<"t","u","t","o","r","i","a","l">>,
                     <<"b","o","o","k">>,
                     <<"p","r","a","c","t","i","c","e">>,
                     <<"s","k","i","l","l">>,
                     <<"c","l","a","s","s">>,
                     <<"l","e","s","s","o","n">>,
                     <<"r","e","s","e","a","r","c","h">>,
                     <<"w","a","t","c","h">> >>,
      tips |-> << "Set aside 25-minute focused sessions",
                  "Take notes for better retention",
                  "Review what you learned yesterday" >>],
     [category |-> "Finance",
      keywords |-> << <<"p","a","y">>,
                     <<"b","i","l","l">>,
                     <<"b","u","d","g","e","t">>,
                     <<"b","a","n","k">>,
                     <<"m","o","n","e","y">>,
                     <<"i","n","v","o","i","c","e">>,
                     <<"t","a","x">>,
                     <<"e","x","p","e","n","s","e">>,
                     <<"s","a","v","e">>,
                     <<"i","n","v","e","s","t">>,
                     <<"t","r","a","n","s","f","e","r">> >>,
      tips |-> << "Set up automatic payments if possible",
                  "Keep receipts organized",
                  "Review your spending weekly" >>],
     [category |-> "Home",
      keywords |-> << <<"c","l","e","a","n">>,
                     <<"f","i","x">>,
                     <<"r","e","p","a","i","r">>,
                     <<"o","r","g","a","n","i","z","e">>,
                     <<"l","a","u","n","d","r","y">>,
                     <<"d","i","s","h","e","s">>,
                     <<"c","o","o","k">>,
                     <<"g","a","r","d","e","n">>,
                     <<"f","u","r","n","i","t","u","r","e">>,
                     <<"d","e","c","o","r","a","t","e">>,
                     <<"m","a","i","n","t","e","n","a","n","c","e">> >>,
      tips |-> << "Break into room-by-room tasks",
                  "Set a timer for focused cleaning",
                  "Gather supplies before starting" >>],
     [category |-> "Social",
      keywords |-> << <<"c","a","l","l">>,
                     <<"f","a","m","i","l","y">>,
                     <<"f","r","i","e","n","d">>,
                     <<"b","i","r","t","h","d","a","y">>,
                     <<"p","a","r","t","y">>,
                     <<"v","i","s","i","t">>,
                     <<"d","i","n","n","e","r">>,
                     <<"l","u","n","c","h">>,
                     <<"c","o","f","f","e","e">>,
                     <<"m","e","e","t">>,
                     <<"c","e","l","e","b","r","a","t","e">>,
                     <<"g","i","f","t">> >>,
      tips |-> << "Add to your calendar with reminders",
                  "Prepare talking points if needed",
                  "Follow up after the event" >>],
     [category |-> "Travel",
      keywords |-> << <<"t","r","a","v","e","l">>,
                     <<"t","r","i","p">>,
                     <<"f","l","i","g","h","t">>,
                     <<"h","o","t","e","l">>,
                     <<"b","o","o","k">>,
                     <<"v","a","c","a","t","i","o","n">>,
                     <<"p","a","c","k">>,
                     <<"p","a","s","s","p","o","r","t">>,
                     <<"v","i","s","a">>,
                     <<"r","e","s","e","r","v","a","t","i","o","n">> >>,
      tips |-> << "Create a packing checklist",
                  "Book early for better prices",
                  "Save confirmation numbers" >>],
     [category |-> "Creative",
      keywords |-> << <<"w","r","i","t","e">>,
                     <<"d","e","s","i","g","n">>,
                     <<"c","r","e","a","t","e">>,
                     <<"d","r","a","w">>,
                     <<"p","a","i","n","t">>,
                     <<"m","u","s","i","c">>,
                     <<"p","h","o","t","o">>,
                     <<"v","i","d","e","o">>,
                     <<"b","l","o","g">>,
                     <<"a","r","t">> >>,
      tips |-> << "Start with a rough draft or sketch",
                  "Set a creative block in your schedule",
                  "Gather inspiration first" >>] >>

highPriorityWords ==
  << <<"u","r","g","e","n","t">>,
     <<"a","s","a","p">>,
     <<"i","m","p","o","r","t","a","n","t">>,
     <<"d","e","a","d","l","i","n","e">>,
     <<"t","o","d","a","y">>,
     <<"n","o","w">>,
     <<"c","r","i","t","i","c","a","l">>,
     <<"e","m","e","r","g","e","n","c","y">>,
     <<"i","m","m","e","d","i","a","t","e","l","y">>,
     <<"p","r","i","o","r","i","t","y">> >>

lowPriorityWords ==
  << <<"l","a","t","e","r">>,
     <<"s","o","m","e","d","a","y">>,
     <<"m","a","y","b","e">>,
     <<"e","v","e","n","t","u","a","l","l","y">>,
     <<"w","h","e","n"," ","p","o","s","s","i","b","l","e">>,
     <<"n","o"," ","r","u","s","h">>,
     <<"w","h","e","n","e","v","e","r">> >>

parseCategoryChain ==
  << [category |-> "Shopping",
      keywords |-> << <<"b","u","y">>, <<"s","h","o","p">>, <<"g","r","o","c","e","r","i","e","s">>, <<"o","r","d","e","r">>, <<"p","u","r","c","h","a","s","e">> >>],
     [category |-> "Work",
      keywords |-> << <<"w","o","r","k">>, <<"m","e","e","t","i","n","g">>, <<"r","e","p","o","r","t">>, <<"e","m","a","i","l">>, <<"p","r","o","j","e","c","t">>, <<"d","e","a","d","l","i","n","e">> >>],
     [category |-> "Health",
      keywords |-> << <<"e","x","e","r","c","i","s","e">>, <<"g","y","m">>, <<"d","o","c","t","o","r">>, <<"h","e","a","l","t","h">>, <<"w","o","r","k","o","u","t">> >>],
     [category |-> "Learning",
      keywords |-> << <<"l","e","a","r","n">>, <<"s","t","u","d","y">>, <<"r","e","a","d">>, <<"c","o","u","r","s","e">>, <<"p","r","a","c","t","i","c","e">> >>],
     [category |-> "Finance",
      keywords |-> << <<"p","a","y">>, <<"b","i","l","l">>, <<"b","a","n","k">>, <<"m","o","n","e","y">>, <<"b","u","d","g","e","t">> >>],
     [category |-> "Home",
      keywords |-> << <<"c","l","e","a","n">>, <<"f","i","x">>, <<"o","r","g","a","n","i","z","e">>, <<"h","o","m","e">>, <<"l","a","u","n","d","r","y">> >>],
     [category |-> "Social",
      keywords |-> << <<"c","a","l","l">>, <<"f","a","m","i","l","y">>, <<"f","r","i","e","n","d">>, <<"m","e","e","t">>, <<"v","i","s","i","t">> >>] >>

\* The default of bestMatch, kept when no rule matches
GeneralMatch ==
  [category |-> "General",
   tips |-> << "Break this task into smaller steps",
               "Set a specific deadline",
               "Review progress regularly" >>]

(***************************************************************************)
(* generateFallbackSuggestion and generateTaskSpecificTip.                 *)
(***************************************************************************)
\* rule.keywords.filter(kw => taskLower.includes(kw)).length
matches(rule, taskLower) ==
  Cardinality({k \in 1..Len(rule.keywords) : includes(taskLower, rule.keywords[k])})

\* Variant: a rule with as many matches replaces the best match so far
Replaces_OrEqual(m, maxMatches) == m >= maxMatches

\* if (matches > maxMatches): does the rule replace the best match so far
Replaces(m, maxMatches) == m > maxMatches

\* for (const rule of categoryRules) { ... }: rules i..end, best match so far
RECURSIVE scanRules(_, _, _, _)
scanRules(i, taskLower, best, maxMatches) ==
  IF i > Len(categoryRules) THEN best
  ELSE LET rule == categoryRules[i]
           m == matches(rule, taskLower)
       IN  IF Replaces(m, maxMatches)
           THEN scanRules(i + 1, taskLower,
                          [category |-> rule.category, tips |-> rule.tips], m)
           ELSE scanRules(i + 1, taskLower, best, maxMatches)

\* The best matching category and its canned tips
bestMatchOf(task) == scanRules(1, toLowerCase(task), GeneralMatch, 0)

\* words.some(w => taskLower.includes(w))
someIncluded(words, taskLower) ==
  \E i \in 1..Len(words) : includes(taskLower, words[i])

\* Variant: the low-priority words are looked for first
priorityOf_LowFirst(task) ==
  LET taskLower == toLowerCase(task)
  IN  IF someIncluded(lowPriorityWords, taskLower) THEN "low"
      ELSE IF someIncluded(highPriorityWords, taskLower) THEN "high"
      ELSE "medium"

\* The priority detection
priorityOf(task) ==
  LET taskLower == toLowerCase(task)
  IN  IF someIncluded(highPriorityWords, taskLower) THEN "high"
      ELSE IF someIncluded(lowPriorityWords, taskLower) THEN "low"
      ELSE "medium"

\* The value null returned by generateTaskSpecificTip
NoTip == "null"

W_tomorrow == <<"t","o","m","o","r","r","o","w">>
W_today == <<"t","o","d","a","y">>
W_weekly == <<"w","e","e","k","l","y">>
W_every == <<"e","v","e","r","y">>
W_finish == <<"f","i","n","i","s","h">>
W_complete == <<"c","o","m","p","l","e","t","e">>
W_start == <<"s","t","a","r","t">>
W_begin == <<"b","e","g","i","n">>
W_prepare == <<"p","r","e","p","a","r","e">>
W_plan == <<"p","l","a","n">>

generateTaskSpecificTip(task, category) ==
  LET taskLower == toLowerCase(task)
  IN  IF includes(taskLower, W_tomorrow) \/ includes(taskLower, W_today)
      THEN "This is time-sensitive - prioritize it in your schedule"
      ELSE IF includes(taskLower, W_weekly) \/ includes(taskLower, W_every)
      THEN "Consider setting up a recurring reminder"
      ELSE IF includes(taskLower, W_finish) \/ includes(taskLower, W_complete)
      THEN "Review what's already done before continuing"
      ELSE IF includes(taskLower, W_start) \/ includes(taskLower, W_begin)
      THEN "Spend 5 minutes planning before you start"
      ELSE IF includes(taskLower, W_prepare) \/ includes(taskLower, W_plan)
      THEN "Write down all the components you need"
      ELSE NoTip

\* Length of the task text quoted in the "Tips for" line
HeadLen == 30

\* generateFallbackSuggestion with the task-specific tip appended to the
\* whole list of canned tips
generateFallbackSuggestion_AppendTip(task) ==
  LET best == bestMatchOf(task)
      category == best.category
      priority == priorityOf(task)
      taskSpecificTip == generateTaskSpecificTip(task, category)
      tips == IF taskSpecificTip # NoTip /\ ~arrayIncludes(best.tips, taskSpecificTip)
              THEN best.tips \o <<taskSpecificTip>>
              ELSE best.tips
  IN  [kind |-> "fallbackText",
       category |-> category,
       priority |-> priority,
       head |-> substring(task, 0, HeadLen),
       ellipsis |-> Len(task) > HeadLen,
       tips |-> tips]

\* The text returned by generateFallbackSuggestion, as the values its
\* template interpolates: the category, the priority, the quoted head of
\* the task (with "..." when the task is longer) and the tip lines.
generateFallbackSuggestion(task) ==
  LET best == bestMatchOf(task)
      category == best.category
      priority == priorityOf(task)
      taskSpecificTip == generateTaskSpecificTip(task, category)
      tips == IF taskSpecificTip # NoTip /\ ~arrayIncludes(best.tips, taskSpecificTip)
              THEN <<taskSpecificTip>> \o SubSeq(best.tips, 1, 2)
              ELSE best.tips
  IN  [kind |-> "fallbackText",
       category |-> category,
       priority |-> priority,
       head |-> substring(task, 0, HeadLen),
       ellipsis |-> Len(task) > HeadLen,
       tips |-> tips]

(***************************************************************************)
(* parseTaskFallback.                                                      *)
(***************************************************************************)
\* inputLower.match(/kw1|kw2|.../)
matchesAny(keywords, inputLower) ==
  \E i \in 1..Len(keywords) : includes(inputLower, keywords[i])

\* if (...) category = ...; else if (...) ...: the first branch that matches
RECURSIVE chainCategory(_, _)
chainCategory(i, inputLower) ==
  IF i > Len(parseCategoryChain) THEN "General"
  ELSE IF matchesAny(parseCategoryChain[i].keywords, inputLower)
       THEN parseCategoryChain[i].category
       ELSE chainCategory(i + 1, inputLower)

\* Length of the title taken when the first sentence is blank
TitleMax == 50

\* input.split(/[.!?\n]/)[0].trim() || input.substring(0, 50)
titleOf(input) ==
  LET first == trim(splitFirst(input))
  IN  IF first # <<>> THEN first ELSE substring(input, 0, TitleMax)

\* input.length > title.length ? input.substring(title.length).trim() : ''
descriptionOf(input, title) ==
  IF Len(input) > Len(title) THEN trim(substringFrom(input, Len(title))) ELSE <<>>

parseTaskFallback(input) ==
  LET title == titleOf(input)
  IN  [kind |-> "parsedFallback",
       title |-> title,
       description |-> descriptionOf(input, title),
       category |-> chainCategory(1, toLowerCase(input))]

(***************************************************************************)
(* The input texts of the model.                                           *)
(***************************************************************************)
F_Buy == <<"B","u","y">>
F_reviewProject == <<"r","e","v","i","e","w"," ","p","r","o","j","e","c","t">>
F_meeting == <<"m","e","e","t","i","n","g">>
F_deadline == <<"d","e","a","d","l","i","n","e">>
F_later == <<"l","a","t","e","r">>
F_today == <<"t","o","d","a","y">>
F_space == <<" ">>
F_stop == <<".">>
X_urgentNoRush == <<"u","r","g","e","n","t"," ","t","a","s","k",","," ","n","o"," ","r","u","s","h"," ","o","n"," ","t","h","e"," ","d","e","t","a","i","l","s">>
X_buyGroceries == <<"B","u","y"," ","g","r","o","c","e","r","i","e","s"," ","a","n","d"," ","p","i","c","k"," ","u","p"," ","d","r","y"," ","c","l","e","a","n","i","n","g">>
X_urgentDentist == <<"U","R","G","E","N","T",":"," ","b","o","o","k"," ","a"," ","d","e","n","t","i","s","t"," ","a","p","p","o","i","n","t","m","e","n","t"," ","t","o","d","a","y">>
X_callJohn == <<"C","a","l","l"," ","J","o","h","n"," ","a","b","o","u","t"," ","t","h","e"," ","p","r","o","j","e","c","t"," ","t","o","m","o","r","r","o","w","."," ","B","r","i","n","g"," ","t","h","e"," ","s","l","i","d","e","s",".">>
X_blank == <<" "," "," ">>
X_padded == <<" "," ","P","a","y"," ","r","e","n","t","!","\n","s","o","m","e","d","a","y"," "," ">>
X_buyForMeeting == <<"B","u","y"," ","s","n","a","c","k","s"," ","f","o","r"," ","t","h","e"," ","p","r","o","j","e","c","t"," ","m","e","e","t","i","n","g">>

Vocabulary ==
  {F_Buy, F_reviewProject, F_meeting, F_deadline,
   F_later, F_today, F_space, F_stop}

\* The example inputs of the specification, two inputs with white space and
\* one input naming keywords of several categories
ExampleTexts ==
  {X_urgentNoRush, X_buyGroceries, X_urgentDentist, X_callJohn, X_blank, X_padded,
   X_buyForMeeting}

RECURSIVE FragTexts(_)
FragTexts(n) ==
  IF n = 0 THEN {<<>>}
  ELSE LET shorter == FragTexts(n - 1)
       IN  shorter \cup {t \o f : t \in shorter, f \in Vocabulary}

Texts == FragTexts(MaxFrags) \cup ExampleTexts


(***************************************************************************)
(* The remote model: what one bedrockClient.send can answer.               *)
(*                                                                         *)
(* A generated text is a sequence of tokens.  "{" and "}" are braces;     *)
(* "title", "description" and "category" each stand for one member        *)
(* "key":"value" of a JSON object (adjacent members are separated by       *)
(* commas); "prose" stands for words without braces; the remaining tokens  *)
(* are lines naming a category or a priority.                              *)
(***************************************************************************)
FieldTokens == {"title", "description", "category"}

R_full == <<"{", "title", "description", "category", "}">>
R_titleOnly == <<"{", "title", "}">>
R_open == <<"{">>
R_close == <<"}">>
R_prose == <<"prose">>
R_suggestion == <<"Category: Pets", "Priority: soon">>

RespVocabulary ==
  {R_full, R_titleOnly, R_open, R_close, R_prose, R_suggestion}

RECURSIVE FragResponses(_)
FragResponses(n) ==
  IF n = 0 THEN {<<>>}
  ELSE LET shorter == FragResponses(n - 1)
       IN  shorter \cup {t \o f : t \in shorter, f \in RespVocabulary}

Generations == FragResponses(MaxRespFrags)

\* A decoded response body: Llama's "generation", or choices[0].message.content
ResponseBodies ==
  {[generation |-> g, content |-> <<>>] : g \in Generations}
    \cup {[generation |-> <<>>, content |-> g] : g \in FragResponses(1)}

W_throttl == <<"t","h","r","o","t","t","l">>
W_tooManyTokens == <<"T","o","o"," ","m","a","n","y"," ","t","o","k","e","n","s">>
M_rateExceeded == <<"R","a","t","e"," ","e","x","c","e","e","d","e","d">>
M_throttled == <<"R","e","q","u","e","s","t"," ","w","a","s"," ","t","h","r","o","t","t","l","e","d">>
M_tooMany == <<"T","o","o"," ","m","a","n","y"," ","t","o","k","e","n","s",","," ","p","l","e","a","s","e"," ","w","a","i","t">>
M_denied == <<"A","c","c","e","s","s"," ","d","e","n","i","e","d">>
M_unexpected == <<"U","n","e","x","p","e","c","t","e","d"," ","t","o","k","e","n"," ","<"," ","i","n"," ","J","S","O","N">>

NoError == [name |-> "none", message |-> <<>>, cause |-> "none"]

\* Errors thrown inside the try block, by send or by JSON.parse of the
\* body, with their name and message; cause tells why the remote endpoint
\* failed: "rateLimit" when it throttled the request, "other" otherwise.
RemoteErrors ==
  {[name |-> "ThrottlingException", message |-> M_rateExceeded, cause |-> "rateLimit"],
   [name |-> "ServiceUnavailableException", message |-> M_throttled, cause |-> "rateLimit"],
   [name |-> "ValidationException", message |-> M_tooMany, cause |-> "rateLimit"],
   [name |-> "AccessDeniedException", message |-> M_denied, cause |-> "other"],
   [name |-> "SyntaxError", message |-> M_unexpected, cause |-> "other"]}

(***************************************************************************)
(* invokeBedrockModel.                                                     *)
(***************************************************************************)
maxRetries == 3
baseDelayMs == 500
maxDelayMs == 4000

\* Variant: every error is retried
isThrottling_RetryAll(error) == TRUE

\* Only retry on throttling errors
isThrottling(error) ==
  \/ error.name = "ThrottlingException"
  \/ includes(error.message, W_throttl)
  \/ includes(error.message, W_tooManyTokens)

\* Variant: the delay grows by baseDelayMs per attempt instead of doubling
backoffDelay_Linear(attempt) ==
  LET d == baseDelayMs * (attempt + 1)
  IN  IF d < maxDelayMs THEN d ELSE maxDelayMs

\* Math.min(baseDelayMs * Math.pow(2, attempt), maxDelayMs)
backoffDelay(attempt) ==
  LET d == baseDelayMs * (2 ^ attempt)
  IN  IF d < maxDelayMs THEN d ELSE maxDelayMs

\* Variant: the loop runs while attempt <= maxRetries
loopContinues_Inclusive(attempt) == attempt <= maxRetries

\* The loop condition of for (let attempt = 0; attempt < maxRetries; attempt++)
loopContinues(attempt) == attempt < maxRetries

\* responseBody.generation || responseBody.choices?.[0]?.message?.content || ''
generationOf(body) ==
  IF body.generation # <<>> THEN body.generation
  ELSE IF body.content # <<>> THEN body.content
  ELSE <<>>

NoResult == [kind |-> "none"]
\* The state of one suggest/parse call.  entry is who called ("direct": a
\* caller of the exported function, "handler": the AI task processor) and
\* body what the handler's event body was.  log holds the outcome of every
\* remote attempt made so far ("ok" or the cause of the error), sleeps the
\* backoff delays slept so far, response the text invokeBedrockModel
\* returned, ret the value the exported function returned.
IdleCall ==
  [pc |-> "idle", entry |-> "none", body |-> "none", mode |-> "none",
   text |-> <<>>, attempt |-> 0, lastError |-> NoError, log |-> <<>>,
   sleeps |-> <<>>, response |-> <<>>, ret |-> NoResult, raised |-> FALSE,
   status |-> 0]

\* The todo API before any request: an empty table.  store is the set of
\* items of the table, clock the time of the last write request, nextId the
\* number of the next id uuidv4 draws, served the todos returned with 201
\* whose key no update or delete has touched since, resp the last response:
\* its request, what the handler did in order (effects) and the events it
\* put on a bus (published).
NoResponse ==
  [op |-> "none", user |-> "none", path |-> <<>>, request |-> <<>>,
   status |-> 0, data |-> <<>>, effects |-> <<>>, published |-> {}]

IdleApi ==
  [store |-> {}, clock |-> 0, nextId |-> 1, served |-> {}, resp |-> NoResponse]

\* The callers of concurrent calls
Callers == 1..NumCallers

\* No concurrent call was started.  c holds the state of each caller's
\* call, attempt the loop counters (one per slot), seen the outcomes of the
\* call's own remote attempts in order, overtaken whether another call took
\* a step while this one was in a backoff sleep.
IdleCalls ==
  [c |-> [k \in Callers |-> IdleCall],
   attempt |-> [k \in Callers |-> 0],
   seen |-> [k \in Callers |-> <<>>],
   overtaken |-> [k \in Callers |-> FALSE]]

\* The stream consumer before it is invoked.  records is the batch, pos the
\* index of the record the loop is at, puts the publish attempts made so
\* far (the index of the record, the entry put, whether the put succeeded),
\* skipped the number of records left out by the continue statement,
\* metrics the two counts emitted after the loop.
IdleStream ==
  [pc |-> "idle", records |-> <<>>, pos |-> 1, successCount |-> 0,
   errorCount |-> 0, skipped |-> 0, puts |-> <<>>, metrics |-> <<>>,
   raised |-> FALSE]

(***************************************************************************)
(* The rule-based functions applied to an input text.                      *)
(***************************************************************************)
InitFallback ==
  /\ call = IdleCall
  /\ api = IdleApi
  /\ calls = IdleCalls
  /\ stream = IdleStream
  /\ fin \in Texts
  /\ fop = "none"
  /\ fout = NoResult

\* Lines 173-186 of generateFallbackSuggestion: category and canned tips
ApplyBestMatch ==
  /\ fop = "none"
  /\ fop' = "bestMatch"
  /\ fout' = bestMatchOf(fin)
  /\ UNCHANGED <<call, fin, api, calls, stream>>

ApplyFallbackSuggestion ==
  /\ fop = "none"
  /\ fop' = "suggest"
  /\ fout' = generateFallbackSuggestion(fin)
  /\ UNCHANGED <<call, fin, api, calls, stream>>

ApplyParseFallback ==
  /\ fop = "none"
  /\ fop' = "parse"
  /\ fout' = parseTaskFallback(fin)
  /\ UNCHANGED <<call, fin, api, calls, stream>>

NextFallback == ApplyBestMatch \/ ApplyFallbackSuggestion \/ ApplyParseFallback

SpecFallback == InitFallback /\ [][NextFallback]_vars

(***************************************************************************)
(* generateTaskSuggestion and parseNaturalLanguageTask, as what each does  *)
(* when invokeBedrockModel returns a text and when it throws.  An outcome  *)
(* is the value returned, or raised when an error reaches the caller.      *)
(***************************************************************************)
\* Texts handed to a call
CallTexts == {<<>>, X_blank, F_Buy, X_callJohn}

\* What generateFallbackSuggestion and parseTaskFallback return for each of
\* these texts, computed once
fallbackSuggestionFor == [t \in CallTexts |-> generateFallbackSuggestion(t)]
parseFallbackFor == [t \in CallTexts |-> parseTaskFallback(t)]

Returned(v) == [raised |-> FALSE, value |-> v]
Raised == [raised |-> TRUE, value |-> NoResult]

\* return await invokeBedrockModel(...): the generated text, as it is
suggestionOnReturn(task, text) == Returned([kind |-> "modelText", text |-> text])

\* Variant: the catch block rethrows
suggestionOnThrow_Rethrow(task) == Raised

\* Variant: the catch block returns the task text instead of a suggestion
suggestionOnThrow_EchoTask(task) == Returned([kind |-> "modelText", text |-> task])

\* catch (error) { return generateFallbackSuggestion(taskDescription) }
suggestionOnThrow(task) == Returned(fallbackSuggestionFor[task])

\* response.match(/\{[\s\S]*\}/): from the first "{" to the last "}"
jsonMatch(response) ==
  LET opens == {i \in 1..Len(response) : response[i] = "{"}
      closes == {i \in 1..Len(response) : response[i] = "}"}
  IN  IF opens = {} \/ closes = {} THEN <<>>
      ELSE IF MaxOf(closes) < MinOf(opens) THEN <<>>
      ELSE SubSeq(response, MinOf(opens), MaxOf(closes))

\* Whether JSON.parse accepts the text: one object of members
jsonValid(text) ==
  /\ Len(text) >= 2
  /\ text[1] = "{"
  /\ text[Len(text)] = "}"
  /\ \A i \in 2..(Len(text) - 1) : text[i] \in FieldTokens

\* The object JSON.parse returns: the members the text names
jsonParse(text) ==
  [kind |-> "json", fields |-> {text[i] : i \in 2..(Len(text) - 1)}]

\* The fallback after the try block of parseNaturalLanguageTask
parseOnThrow(input) == Returned(parseFallbackFor[input])

\* Variant: JSON.parse is called outside the try block
parseOnSyntaxError_Propagate(input) == Raised

\* What the catch block does with an error of JSON.parse: log, fall through
parseOnSyntaxError(input) == parseOnThrow(input)

\* The try block after invokeBedrockModel has returned
parseOnReturn(input, response) ==
  LET m == jsonMatch(response)
  IN  IF m # <<>>
      THEN IF jsonValid(m) THEN Returned(jsonParse(m)) ELSE parseOnSyntaxError(input)
      ELSE parseOnThrow(input)

wrapperOnReturn(mode, text, response) ==
  IF mode = "parse" THEN parseOnReturn(text, response)
  ELSE suggestionOnReturn(text, response)

wrapperOnThrow(mode, text) ==
  IF mode = "parse" THEN parseOnThrow(text) ELSE suggestionOnThrow(text)

(***************************************************************************)
(* The steps of one call.                                                  *)
(***************************************************************************)
startCall(entry, mode, text) ==
  [IdleCall EXCEPT !.pc = "sending", !.entry = entry, !.mode = mode, !.text = text]

\* The call returns to its caller; the AI task processor answers 200, or
\* 500 from its catch block
finish(c, outcome) ==
  [c EXCEPT !.pc = "done",
            !.ret = outcome.value,
            !.raised = outcome.raised,
            !.status = IF c.entry = "handler"
                       THEN (IF outcome.raised THEN 500 ELSE 200)
                       ELSE 0]

\* bedrockClient.send answered and the body was decoded
onResponse(c, body) ==
  finish([c EXCEPT !.log = Append(@, "ok"), !.response = generationOf(body)],
         wrapperOnReturn(c.mode, c.text, generationOf(body)))

\* Variant: no sleep after the throttled attempt that exhausts the loop
onError_NoLastSleep(c, error) ==
  IF isThrottling(error) /\ loopContinues(c.attempt + 1)
  THEN [c EXCEPT !.lastError = error,
                 !.log = Append(@, error.cause),
                 !.sleeps = Append(@, backoffDelay(c.attempt)),
                 !.pc = "sleeping"]
  ELSE finish([c EXCEPT !.lastError = error, !.log = Append(@, error.cause)],
              wrapperOnThrow(c.mode, c.text))

\* The catch block of the retry loop, up to the sleep or the throw
onError(c, error) ==
  IF isThrottling(error)
  THEN [c EXCEPT !.lastError = error,
                 !.log = Append(@, error.cause),
                 !.sleeps = Append(@, backoffDelay(c.attempt)),
                 !.pc = "sleeping"]
  ELSE finish([c EXCEPT !.lastError = error, !.log = Append(@, error.cause)],
              wrapperOnThrow(c.mode, c.text))

\* The sleep is over: continue, attempt++, and the loop condition
onWake(c) ==
  LET next == c.attempt + 1
  IN  IF loopContinues(next)
      THEN [c EXCEPT !.attempt = next, !.pc = "sending"]
      ELSE finish([c EXCEPT !.attempt = next], wrapperOnThrow(c.mode, c.text))

(***************************************************************************)
(* The AI task processor handler.                                          *)
(***************************************************************************)
\* Variant: the task is not trimmed before the check
taskMissing_NoTrim(body) == ~body.hasTask \/ body.task = <<>>

\* if (!body.task || body.task.trim().length === 0)
taskMissing(body) ==
  \/ ~body.hasTask
  \/ body.task = <<>>
  \/ Len(trim(body.task)) = 0

RequestBodies ==
  {[hasTask |-> TRUE, task |-> t, mode |-> m] :
     t \in CallTexts, m \in {"suggest", "parse", "none"}}
    \cup {[hasTask |-> FALSE, task |-> <<>>, mode |-> m] :
            m \in {"suggest", "parse", "none"}}

Init ==
  /\ call = IdleCall
  /\ api = IdleApi
  /\ calls = IdleCalls
  /\ stream = IdleStream
  /\ fin = <<>>
  /\ fop = "none"
  /\ fout = NoResult

\* A caller of the shared layer calls one of the two exported functions
CallDirect(mode, text) ==
  /\ call.pc = "idle"
  /\ call' = startCall("direct", mode, text)
  /\ UNCHANGED <<fin, fop, fout, api, calls, stream>>

\* The AI task processor is invoked with a well-formed JSON body
HandlerInvoke(body) ==
  /\ call.pc = "idle"
  /\ call' = IF taskMissing(body)
             THEN [IdleCall EXCEPT !.pc = "done", !.entry = "handler",
                                   !.body = "json", !.text = body.task,
                                   !.status = 400]
             ELSE [startCall("handler",
                             IF body.mode = "parse" THEN "parse" ELSE "suggest",
                             body.task) EXCEPT !.body = "json"]
  /\ UNCHANGED <<fin, fop, fout, api, calls, stream>>

\* JSON.parse(event.body) throws: the catch block answers 500
HandlerMalformed ==
  /\ call.pc = "idle"
  /\ call' = [IdleCall EXCEPT !.pc = "done", !.entry = "handler",
                              !.body = "malformed", !.status = 500]
  /\ UNCHANGED <<fin, fop, fout, api, calls, stream>>

RemoteResponds(body) ==
  /\ call.pc = "sending"
  /\ call' = onResponse(call, body)
  /\ UNCHANGED <<fin, fop, fout, api, calls, stream>>

RemoteFails(error) ==
  /\ call.pc = "sending"
  /\ call' = onError(call, error)
  /\ UNCHANGED <<fin, fop, fout, api, calls, stream>>

WakeUp ==
  /\ call.pc = "sleeping"
  /\ call' = onWake(call)
  /\ UNCHANGED <<fin, fop, fout, api, calls, stream>>

RemoteAnswers ==
  \/ \E body \in ResponseBodies : RemoteResponds(body)
  \/ \E error \in RemoteErrors : RemoteFails(error)

Next ==
  \/ \E mode \in {"suggest", "parse"}, text \in CallTexts : CallDirect(mode, text)
  \/ \E body \in RequestBodies : HandlerInvoke(body)
  \/ HandlerMalformed
  \/ RemoteAnswers
  \/ WakeUp

Spec == Init /\ [][Next]_vars

\* The remote endpoint answers every attempt and every sleep timer fires
\* The sleep timers fire, but nothing obliges the remote endpoint to answer:
\* the loop sets no timer on bedrockClient.send
HangSpec == Spec /\ WF_vars(WakeUp)

LiveSpec == Spec /\ WF_vars(RemoteAnswers) /\ WF_vars(WakeUp)


(***************************************************************************)
(* Several calls at the same time.  Every call of invokeBedrockModel runs  *)
(* its own retry loop; await hands control back to the event loop, so the  *)
(* steps of different calls interleave at every send and every sleep.      *)
(***************************************************************************)
\* Variant: one loop counter at module level, used by every call
attemptSlot_Module(k) == 1

\* for (let attempt = 0; ...) inside the function body: the counter is
\* bound anew by every invocation, so caller k's loop uses slot k
attemptSlot(k) == k

\* What the remote endpoint may answer to an attempt of a concurrent call
ConcOutcomes ==
  {[kind |-> "body", body |-> [generation |-> R_full, content |-> <<>>], error |-> NoError]}
    \cup {[kind |-> "error", body |-> [generation |-> <<>>, content |-> <<>>], error |-> e] :
            e \in {x \in RemoteErrors : x.name \in {"ThrottlingException", "AccessDeniedException"}}}

ConcInputs ==
  {[mode |-> "suggest", text |-> F_Buy], [mode |-> "parse", text |-> X_callJohn]}

\* The frame of caller k's invocation: its call state with the loop counter
\* read from the slot its loop uses
frameOf(s, k) == [s.c[k] EXCEPT !.attempt = s.attempt[attemptSlot(k)]]

\* Caller k's invocation took a step that left its frame as c: the counter
\* is written back, and every other call found asleep has been overtaken
stepped(s, k, c) ==
  [s EXCEPT !.c[k] = c,
            !.attempt[attemptSlot(k)] = c.attempt,
            !.overtaken = [j \in Callers |->
                             s.overtaken[j] \/ (j # k /\ s.c[j].pc = "sleeping")]]

ConcStart(k, input) ==
  /\ calls.c[k].pc = "idle"
  /\ calls' = stepped(calls, k, startCall("direct", input.mode, input.text))
  /\ UNCHANGED <<call, fin, fop, fout, api, stream>>

\* The remote endpoint answers the attempt of caller k
ConcRemoteAnswers(k, outcome) ==
  /\ calls.c[k].pc = "sending"
  /\ calls' = [stepped(calls, k,
                       IF outcome.kind = "body"
                       THEN onResponse(frameOf(calls, k), outcome.body)
                       ELSE onError(frameOf(calls, k), outcome.error))
                 EXCEPT !.seen[k] = Append(@, outcome)]
  /\ UNCHANGED <<call, fin, fop, fout, api, stream>>

\* The sleep timer of caller k fires
ConcWakeUp(k) ==
  /\ calls.c[k].pc = "sleeping"
  /\ calls' = stepped(calls, k, onWake(frameOf(calls, k)))
  /\ UNCHANGED <<call, fin, fop, fout, api, stream>>

NextConc ==
  \/ \E k \in Callers, input \in ConcInputs : ConcStart(k, input)
  \/ \E k \in Callers, outcome \in ConcOutcomes : ConcRemoteAnswers(k, outcome)
  \/ \E k \in Callers : ConcWakeUp(k)

SpecConc == Init /\ [][NextConc]_vars


(***************************************************************************)
(* The todo API: create-todo, get-todo, list-todos, update-todo and        *)
(* delete-todo over the todos table and the event bus.  A request body, a  *)
(* path, a query string and a stored item are records that have a field    *)
(* exactly when the JavaScript object has the property.  Each handler      *)
(* performs at most one store operation, so a request is one step; whether *)
(* the store operation and the event publish succeed is an input.  The     *)
(* description, dueDate, tags and expiresAt attributes are copied through  *)
(* by the handlers and are left out.                                       *)
(***************************************************************************)
\* The clock counts the writes the table has executed (the id and the time
\* drawn for a write the table rejects are never seen again); no write is
\* sent when it shows MaxClock
MaxClock == 2

\* event.requestContext.authorizer.claims.sub of the callers
Users == {"alice", "bob"}

has(obj, field) == field \in DOMAIN obj

\* cdk: eventBusName `${stackNamePrefix}-event-bus`, and the two rules on it
TodoEventBusName == "todo-api-dev-event-bus"
Rules ==
  {[bus |-> TodoEventBusName, source |-> "todo.api",
    detailType |-> "Todo Created", target |-> "AITaskProcessorFunction"],
   [bus |-> TodoEventBusName, source |-> "dynamodb.stream",
    detailType |-> "Stream Record", target |-> "StreamConsumerFunction"]}

\* The functions an event put on a bus is delivered to
targetsOf(event) ==
  {r.target : r \in {q \in Rules : /\ q.bus = event.bus
                                   /\ q.source = event.source
                                   /\ q.detailType = event.detailType}}

\* publishEvent: EventBusName: event.busName || 'default'
publishEvent(event) ==
  [bus |-> IF has(event, "busName") /\ event.busName # "" THEN event.busName
           ELSE "default",
   source |-> event.source,
   detailType |-> event.detailType,
   detail |-> event.detail]

\* publishTodoEvent(detailType, detail) as the handlers call it: the third
\* parameter busName is not passed
publishTodoEvent(detailType, detail) ==
  publishEvent([source |-> "todo.api", detailType |-> detailType,
                detail |-> detail])

\* uuidv4(): the n-th id drawn; ids are never drawn twice
uuidv4(n) == n

\* An id no create-todo has returned
UnknownId == 0

\* Variant: the key is the todoId alone
itemsAt_AnyUser(store, userId, todoId) == {i \in store : i.todoId = todoId}

\* Key: { userId, todoId }
itemsAt(store, userId, todoId) ==
  {i \in store : i.userId = userId /\ i.todoId = todoId}

\* PutCommand: the item replaces the item of the same key
putItem(store, item) ==
  (store \ itemsAt(store, item.userId, item.todoId)) \cup {item}

\* DeleteCommand
deleteItem(store, userId, todoId) == store \ itemsAt(store, userId, todoId)

\* UpdateCommand with SET: the attributes are set on the item of the key,
\* which is created when the table has none
updateItem(store, userId, todoId, attributes) ==
  LET found == itemsAt(store, userId, todoId)
      old == IF found = {} THEN [userId |-> userId, todoId |-> todoId]
             ELSE CHOOSE i \in found : TRUE
  IN  attributes @@ old

\* Variant: an event is put on the bus whatever the request did
respond_Publishing(a, op, user, path, request, status, data, effects) ==
  [a EXCEPT !.resp = [op |-> op, user |-> user, path |-> path,
                      request |-> request, status |-> status,
                      data |-> data, effects |-> effects,
                      published |-> {publishTodoEvent("Todo Created",
                                       [todoId |-> UnknownId, userId |-> user])}]]

\* The response of a handler and what the request did, in order
respond(a, op, user, path, request, status, data, effects) ==
  [a EXCEPT !.resp = [op |-> op, user |-> user, path |-> path,
                      request |-> request, status |-> status,
                      data |-> data, effects |-> effects, published |-> {}]]

\* The same, for a request whose event was put on its bus
respondPublished(a, op, user, path, request, status, data, effects, event) ==
  [a EXCEPT !.resp = [op |-> op, user |-> user, path |-> path,
                      request |-> request, status |-> status,
                      data |-> data, effects |-> effects,
                      published |-> {event}]]

\* What happens to the store operation of a write request and to the event
\* publish that follows it: both succeed, dynamoDb.send rejects, or
\* publishEvent throws
WriteOutcomes == {"ok", "storeFails", "publishFails"}

\* What the store answers to a query: the items of an index that share the
\* sort key in one order or the other, or an error
QueryAnswers == {"forward", "backward", "fails"}

\* JSON.parse(event.body) throws
MalformedBody == [malformed |-> TRUE]

(***************************************************************************)
(* create-todo.                                                            *)
(***************************************************************************)
\* Variant: the title is not trimmed before the check
titleMissing_NoTrim(body) == ~has(body, "title") \/ body.title = <<>>

\* if (!body.title || body.title.trim().length === 0)
titleMissing(body) ==
  \/ ~has(body, "title")
  \/ body.title = <<>>
  \/ Len(trim(body.title)) = 0

\* Variant: the priority is always the default
priorityOrMedium_Always(body) == "medium"

\* priority: body.priority || 'medium'
priorityOrMedium(body) ==
  IF has(body, "priority") /\ body.priority # "" THEN body.priority
  ELSE "medium"

\* What generateTaskSuggestion returns to create-todo: a text
SuggestionText == "suggestion"

createTodo(a, user, body, outcome) ==
  IF has(body, "malformed")
  THEN respond(a, "create", user, <<>>, body, 500, "error", <<>>)
  ELSE IF titleMissing(body)
  THEN respond(a, "create", user, <<>>, body, 400, "Title is required", <<>>)
  ELSE
    LET todoId == uuidv4(a.nextId)
        now == a.clock + 1
        wantsAi == has(body, "generateSuggestions") /\ body.generateSuggestions
        asked == IF wantsAi THEN <<"suggest">> ELSE <<>>
        todo == (IF wantsAi THEN [aiSuggestion |-> SuggestionText] ELSE <<>>)
                @@ [userId |-> user,
                    todoId |-> todoId,
                    title |-> trim(body.title),
                    status |-> "pending",
                    priority |-> priorityOrMedium(body),
                    createdAt |-> now,
                    updatedAt |-> now]
        drawn == [a EXCEPT !.nextId = @ + 1, !.clock = now]
        written == [drawn EXCEPT !.store = putItem(@, todo)]
        event == publishTodoEvent("Todo Created",
                   [todoId |-> todoId, userId |-> user])
    IN  IF outcome = "storeFails"
        THEN respond(a, "create", user, <<>>, body, 500, "error",
                     asked \o <<"putFailed">>)
        ELSE IF outcome = "publishFails"
        THEN respond(written, "create", user, <<>>, body, 500, "error",
                     asked \o <<"put", "publishFailed">>)
        ELSE respondPublished([written EXCEPT !.served = @ \cup {todo}],
                              "create", user, <<>>, body, 201, todo,
                              asked \o <<"put", "publish">>, event)

(***************************************************************************)
(* get-todo.                                                               *)
(***************************************************************************)
\* if (!todoId)
idMissing(path) == ~has(path, "id")

getTodo(a, user, path, getOk) ==
  IF idMissing(path)
  THEN respond(a, "get", user, path, <<>>, 400, "Todo ID is required", <<>>)
  ELSE IF ~getOk
  THEN respond(a, "get", user, path, <<>>, 500, "error", <<"getFailed">>)
  ELSE LET found == itemsAt(a.store, user, path.id)
       IN  IF found = {}
           THEN respond(a, "get", user, path, <<>>, 404, "Todo not found",
                        <<"get">>)
           ELSE respond(a, "get", user, path, <<>>, 200,
                        CHOOSE i \in found : TRUE, <<"get">>)


(***************************************************************************)
(* list-todos.                                                             *)
(***************************************************************************)
DefaultLimit == 20
MaxLimit == 100

Digits == <<"0", "1", "2", "3", "4", "5", "6", "7", "8", "9">>
isDigit(c) == \E d \in 1..Len(Digits) : Digits[d] = c
digitValue(c) == (CHOOSE d \in 1..Len(Digits) : Digits[d] = c) - 1

NaN == [nan |-> TRUE, value |-> 0]

RECURSIVE digitsValue(_, _, _)
\* The value of the longest prefix of digits of s from position i on
digitsValue(s, i, acc) ==
  IF i > Len(s) \/ ~isDigit(s[i]) THEN acc
  ELSE digitsValue(s, i + 1, acc * 10 + digitValue(s[i]))

\* parseInt(s, 10): leading white space, a sign, then the digits up to the
\* first other character; NaN when there is no digit
parseInt(s) ==
  LET lead == {i \in 1..Len(s) : s[i] \notin WhiteSpace}
      from == IF lead = {} THEN Len(s) + 1 ELSE MinOf(lead)
      signed == from <= Len(s) /\ s[from] \in {"-", "+"}
      start == IF signed THEN from + 1 ELSE from
      magnitude == digitsValue(s, start, 0)
  IN  IF start > Len(s) \/ ~isDigit(s[start]) THEN NaN
      ELSE [nan |-> FALSE,
            value |-> IF signed /\ s[from] = "-" THEN 0 - magnitude
                      ELSE magnitude]

\* const { limit = 20 } = query;  Math.min(parseInt(limit, 10) || 20, 100)
limitOf(query) ==
  LET parsed == IF has(query, "limit") THEN parseInt(query.limit)
                ELSE [nan |-> FALSE, value |-> DefaultLimit]
      given == IF parsed.nan \/ parsed.value = 0 THEN DefaultLimit
               ELSE parsed.value
  IN  MinOf({given, MaxLimit})

RECURSIVE sortByTodoId(_, _)
\* The items of one partition in the order of their sort key
sortByTodoId(items, forward) ==
  IF items = {} THEN <<>>
  ELSE LET ids == {i.todoId : i \in items}
           first == CHOOSE i \in items :
                      i.todoId = (IF forward THEN MinOf(ids) ELSE MaxOf(ids))
       IN  <<first>> \o sortByTodoId(items \ {first}, forward)

\* if (status) / else if (category)
given(query, field) == has(query, field) /\ query[field] # ""

\* Which of the three queries the handler sends
indexOf(query) ==
  IF given(query, "status") THEN "StatusIndex"
  ELSE IF given(query, "category") THEN "CategoryIndex"
  ELSE "table"

\* Variant: the key condition does not name the caller
selected_AllUsers(store, user, query) ==
  LET index == indexOf(query)
  IN  {i \in store :
         /\ index = "StatusIndex"
              => (has(i, "status") /\ i.status = query.status)
         /\ index = "CategoryIndex"
              => (has(i, "category") /\ i.category = query.category)}

\* The items the key condition of the query selects
selected(store, user, query) ==
  LET index == indexOf(query)
  IN  {i \in store :
         /\ i.userId = user
         /\ index = "StatusIndex"
              => (has(i, "status") /\ i.status = query.status)
         /\ index = "CategoryIndex"
              => (has(i, "category") /\ i.category = query.category)}

\* QueryCommand with Limit: the first Limit selected items in the order of
\* the index, and LastEvaluatedKey when the Limit was reached.  The table is
\* read backward (ScanIndexForward: false); the items of an index that
\* share the sort key come in either order (the answer says which).
queryItems(store, user, query, answer) ==
  LET ordered == sortByTodoId(selected(store, user, query),
                              IF indexOf(query) = "table" THEN FALSE
                              ELSE answer = "forward")
      Limit == limitOf(query)
      Items == SubSeq(ordered, 1, MinOf({Limit, Len(ordered)}))
  IN  (IF Len(ordered) >= Limit
       THEN [LastEvaluatedKey |-> [userId |-> user,
                                   todoId |-> Items[Limit].todoId]]
       ELSE <<>>)
      @@ [Items |-> Items]

listTodos(a, user, query, answer) ==
  IF answer = "fails" \/ limitOf(query) < 1
  THEN respond(a, "list", user, <<>>, query, 500, "error", <<"queryFailed">>)
  ELSE LET result == queryItems(a.store, user, query, answer)
           page == (IF has(result, "LastEvaluatedKey")
                    THEN [lastKey |-> result.LastEvaluatedKey] ELSE <<>>)
                   @@ [todos |-> result.Items, count |-> Len(result.Items)]
       IN  respond(a, "list", user, <<>>, query, 200, page, <<"query">>)

(***************************************************************************)
(* update-todo and delete-todo.                                            *)
(***************************************************************************)
\* The properties of the body that update-todo copies into the SET
UpdatedFields == {"title", "status", "priority", "category"}

updateTodo(a, user, path, body, outcome) ==
  IF idMissing(path)
  THEN respond(a, "update", user, path, body, 400, "Todo ID is required", <<>>)
  ELSE IF has(body, "malformed")
  THEN respond(a, "update", user, path, body, 500, "error", <<>>)
  ELSE
    LET now == a.clock + 1
        attributes == [updatedAt |-> now]
                      @@ [f \in DOMAIN body \cap UpdatedFields |-> body[f]]
        Attributes == updateItem(a.store, user, path.id, attributes)
        timed == [a EXCEPT !.clock = now]
        written == [timed EXCEPT
                      !.store = putItem(@, Attributes),
                      !.served = deleteItem(@, user, path.id)]
        event == publishTodoEvent("Todo Updated",
                   [todoId |-> path.id, userId |-> user])
    IN  IF outcome = "storeFails"
        THEN respond(a, "update", user, path, body, 500, "error",
                     <<"updateFailed">>)
        ELSE IF outcome = "publishFails"
        THEN respond(written, "update", user, path, body, 500, "error",
                     <<"update", "publishFailed">>)
        ELSE respondPublished(written, "update", user, path, body, 200,
                              Attributes, <<"update", "publish">>, event)

deleteTodo(a, user, path, outcome) ==
  IF idMissing(path)
  THEN respond(a, "delete", user, path, <<>>, 400, "Todo ID is required", <<>>)
  ELSE
    LET timed == [a EXCEPT !.clock = @ + 1]
        written == [timed EXCEPT !.store = deleteItem(@, user, path.id),
                                 !.served = deleteItem(@, user, path.id)]
        event == publishTodoEvent("Todo Deleted",
                   [todoId |-> path.id, userId |-> user])
    IN  IF outcome = "storeFails"
        THEN respond(a, "delete", user, path, <<>>, 500, "error",
                     <<"deleteFailed">>)
        ELSE IF outcome = "publishFails"
        THEN respond(written, "delete", user, path, <<>>, 500, "error",
                     <<"delete", "publishFailed">>)
        ELSE respondPublished(written, "delete", user, path, <<>>, 200,
                              "Todo deleted successfully",
                              <<"delete", "publish">>, event)

(***************************************************************************)
(* The requests of the model.                                              *)
(***************************************************************************)
T_paddedBuy == <<" ", "B", "u", "y", " ">>

CreateBodies ==
  {<<>>,
   MalformedBody,
   [title |-> <<>>],
   [title |-> X_blank, priority |-> "high", generateSuggestions |-> TRUE],
   [title |-> T_paddedBuy],
   [title |-> F_Buy, priority |-> "high", generateSuggestions |-> TRUE]}

UpdateBodies ==
  {MalformedBody,
   [status |-> "completed", category |-> "Work"],
   [title |-> <<>>, status |-> "done", priority |-> "urgent"]}

L_one == <<"1">>
ListQueries ==
  {<<>>,
   [limit |-> L_one],
   [status |-> "pending"],
   [status |-> "pending", limit |-> L_one],
   [category |-> "Work"],
   [status |-> "pending", category |-> "Work"]}

\* The paths a client can send: none, an id no create returned, a returned id
Paths(a) == {<<>>} \cup {[id |-> n] : n \in UnknownId..(a.nextId - 1)}

InitApi ==
  /\ call = IdleCall
  /\ fin = <<>>
  /\ fop = "none"
  /\ fout = NoResult
  /\ api = IdleApi
  /\ calls = IdleCalls
  /\ stream = IdleStream

\* The handlers are invoked one request at a time by the HTTP API: a
\* request is taken up once the response to the one before was returned
CreateTodo(user, body, outcome) ==
  /\ api.resp = NoResponse
  /\ LET next == createTodo(api, user, body, outcome)
     IN  next.clock <= MaxClock /\ api' = next
  /\ UNCHANGED <<call, fin, fop, fout, calls, stream>>

GetTodo(user, path, getOk) ==
  /\ api.resp = NoResponse
  /\ api' = getTodo(api, user, path, getOk)
  /\ UNCHANGED <<call, fin, fop, fout, calls, stream>>

ListTodos(user, query, answer) ==
  /\ api.resp = NoResponse
  /\ api' = listTodos(api, user, query, answer)
  /\ UNCHANGED <<call, fin, fop, fout, calls, stream>>

\* The client receives the response of a list request and repeats the
\* request, passing back the lastKey of the response
ListNextPage(answer) ==
  /\ api.resp.op = "list"
  /\ api.resp.status = 200
  /\ has(api.resp.data, "lastKey")
  /\ api' = listTodos(api, api.resp.user,
                      [lastKey |-> api.resp.data.lastKey] @@ api.resp.request,
                      answer)
  /\ UNCHANGED <<call, fin, fop, fout, calls, stream>>

UpdateTodo(user, path, body, outcome) ==
  /\ api.resp = NoResponse
  /\ LET next == updateTodo(api, user, path, body, outcome)
     IN  next.clock <= MaxClock /\ api' = next
  /\ UNCHANGED <<call, fin, fop, fout, calls, stream>>

DeleteTodo(user, path, outcome) ==
  /\ api.resp = NoResponse
  /\ LET next == deleteTodo(api, user, path, outcome)
     IN  next.clock <= MaxClock /\ api' = next
  /\ UNCHANGED <<call, fin, fop, fout, calls, stream>>

\* The HTTP API returns the response of the handler to the client
ResponseReturned ==
  /\ api.resp # NoResponse
  /\ api' = [api EXCEPT !.resp = NoResponse]
  /\ UNCHANGED <<call, fin, fop, fout, calls, stream>>

NextApi ==
  \/ \E user \in Users, body \in CreateBodies, outcome \in WriteOutcomes :
       CreateTodo(user, body, outcome)
  \/ \E user \in Users, path \in Paths(api), getOk \in BOOLEAN :
       GetTodo(user, path, getOk)
  \/ \E user \in Users, query \in ListQueries, answer \in QueryAnswers :
       ListTodos(user, query, answer)
  \/ \E answer \in QueryAnswers : ListNextPage(answer)
  \/ \E user \in Users, path \in Paths(api), body \in UpdateBodies,
        outcome \in WriteOutcomes :
       UpdateTodo(user, path, body, outcome)
  \/ \E user \in Users, path \in Paths(api), outcome \in WriteOutcomes :
       DeleteTodo(user, path, outcome)
  \/ ResponseReturned

SpecApi == InitApi /\ [][NextApi]_vars


(***************************************************************************)
(* The stream consumer: one invocation with a batch of stream records.     *)
(***************************************************************************)
\* The value of a property that is not there
Undefined == "undefined"

\* Stream records: an insert, a removal, a record whose dynamodb object has
\* no image and no keys, and a record without a dynamodb object
S_insert == [eventName |-> "INSERT", dynamodb |-> [NewImage |-> "new", Keys |-> "keys"]]
S_remove == [eventName |-> "REMOVE", dynamodb |-> [OldImage |-> "old", Keys |-> "keys"]]
S_empty == [eventName |-> "MODIFY", dynamodb |-> <<>>]
S_noDynamodb == [eventName |-> "INSERT"]
StreamRecords == {S_insert, S_remove, S_empty, S_noDynamodb}

RECURSIVE Batches(_)
Batches(n) ==
  IF n = 0 THEN {<<>>}
  ELSE LET shorter == Batches(n - 1)
       IN  shorter \cup {Append(b, r) : b \in shorter, r \in StreamRecords}

\* dynamodb?.NewImage, dynamodb?.OldImage, dynamodb?.Keys
imageOf(record, field) ==
  IF has(record, "dynamodb") /\ has(record.dynamodb, field)
  THEN record.dynamodb[field]
  ELSE Undefined

\* if (!NewImage && !OldImage && !Keys)
recordMissing(record) ==
  /\ imageOf(record, "NewImage") = Undefined
  /\ imageOf(record, "OldImage") = Undefined
  /\ imageOf(record, "Keys") = Undefined

\* The event the consumer publishes for a record
streamEvent(record) ==
  publishEvent([source |-> "dynamodb.stream",
                detailType |-> "Stream Record",
                detail |-> [eventName |-> record.eventName,
                            eventSource |-> "dynamodb",
                            newImage |-> imageOf(record, "NewImage"),
                            oldImage |-> imageOf(record, "OldImage"),
                            keys |-> imageOf(record, "Keys")]])

\* Variant: the error of publishEvent is not caught and ends the handler
afterPublishError_Rethrow(s) == [s EXCEPT !.pc = "done", !.raised = TRUE]

\* catch (error) { errorCount++; ... } and the loop goes on
afterPublishError(s) == [s EXCEPT !.errorCount = @ + 1, !.pos = @ + 1]

\* One pass of the loop body, for the record at pos
processRecord(s, putOk) ==
  LET record == s.records[s.pos]
      put == [s EXCEPT !.puts = Append(@, [record |-> s.pos,
                                           entry |-> streamEvent(record),
                                           ok |-> putOk])]
  IN  IF recordMissing(record)
      THEN [s EXCEPT !.skipped = @ + 1, !.pos = @ + 1]
      ELSE IF putOk
      THEN [put EXCEPT !.successCount = @ + 1, !.pos = @ + 1]
      ELSE afterPublishError(put)

StreamInvoke(batch) ==
  /\ stream.pc = "idle"
  /\ stream' = [IdleStream EXCEPT !.pc = "looping", !.records = batch]
  /\ UNCHANGED <<call, fin, fop, fout, api, calls>>

\* The loop takes the next record; the put of its event succeeds or fails
StreamRecord(putOk) ==
  /\ stream.pc = "looping"
  /\ stream.pos <= Len(stream.records)
  /\ stream' = processRecord(stream, putOk)
  /\ UNCHANGED <<call, fin, fop, fout, api, calls>>

\* After the loop the two counts are emitted as metrics and the handler
\* returns
StreamReturns ==
  /\ stream.pc = "looping"
  /\ stream.pos > Len(stream.records)
  /\ stream' = [stream EXCEPT
                  !.pc = "done",
                  !.metrics = <<[name |-> "StreamRecordsProcessed",
                                 value |-> stream.successCount],
                                [name |-> "StreamRecordsError",
                                 value |-> stream.errorCount]>>]
  /\ UNCHANGED <<call, fin, fop, fout, api, calls>>

NextStream ==
  \/ \E batch \in Batches(MaxBatch) : StreamInvoke(batch)
  \/ \E putOk \in BOOLEAN : StreamRecord(putOk)
  \/ StreamReturns

SpecStream == Init /\ [][NextStream]_vars


(***************************************************************************)
(* The limit of list-todos applied to a query string.                      *)
(***************************************************************************)
\* The characters of the values of the limit parameter
LimitChars == {"-", "0", "1", "5", "9", "a", " "}

RECURSIVE LimitTexts(_)
LimitTexts(n) ==
  IF n = 0 THEN {<<>>}
  ELSE LET shorter == LimitTexts(n - 1)
       IN  shorter \cup {t \o <<ch>> : t \in shorter, ch \in LimitChars}

\* Query strings without a limit and with a limit of at most MaxLimitLen
\* characters
LimitQueries == {<<>>} \cup {[limit |-> t] : t \in LimitTexts(MaxLimitLen)}

InitLimit ==
  /\ call = IdleCall
  /\ api = IdleApi
  /\ calls = IdleCalls
  /\ stream = IdleStream
  /\ fin \in LimitQueries
  /\ fop = "none"
  /\ fout = NoResult

\* The Limit of the QueryCommand list-todos builds from the query string
ApplyLimit ==
  /\ fop = "none"
  /\ fop' = "limit"
  /\ fout' = [kind |-> "limit", Limit |-> limitOf(fin)]
  /\ UNCHANGED <<call, fin, api, calls, stream>>

NextLimit == ApplyLimit

SpecLimit == InitLimit /\ [][NextLimit]_vars


(***************************************************************************)
(* Properties.                                                             *)
(***************************************************************************)
Last(seq) == seq[Len(seq)]

\* How the outcomes of remote attempts are called in the properties
ThrottlingOutcomes == {"rateLimit"}
FatalOutcomes == {"other"}

NumThrottled(c) == Cardinality({i \in 1..Len(c.log) : c.log[i] \in ThrottlingOutcomes})

\* The call made at least one remote attempt and every attempt was throttled
AllThrottled(c) ==
  /\ c.log # <<>>
  /\ \A i \in 1..Len(c.log) : c.log[i] \in ThrottlingOutcomes

IsFallbackResult(r) == r.kind \in {"fallbackText", "parsedFallback"}

C2_SuggestAlwaysReturns ==
  /\ [](((call.mode = "suggest" /\ call.text # <<>>)
          => /\ ~call.raised
             /\ call.status # 500
             /\ (call.pc = "done" => call.ret.kind \in {"modelText", "fallbackText"})))
  /\ ((call.mode = "suggest" /\ call.text # <<>>) ~> (call.pc = "done"))

C2_Witness ==
  /\ call.mode = "suggest"
  /\ call.text # <<>>
  /\ call.pc = "done"
  /\ Len(call.log) = 2
  /\ call.log[1] \in ThrottlingOutcomes
  /\ call.log[2] \in FatalOutcomes
  /\ call.ret.kind = "fallbackText"

\* The fixed sets of categories and priorities
CategorySet ==
  {"Work", "Personal", "Shopping", "Health", "Learning", "Finance", "Home",
   "Social", "Travel", "Creative", "General"}
PrioritySet == {"low", "medium", "high"}

\* The lines of a generated text that name a category or a priority
CategoryLines == {"Category: Pets"} \cup {"Category: " \o c : c \in CategorySet}
PriorityLines == {"Priority: soon"} \cup {"Priority: " \o q : q \in PrioritySet}

\* A returned suggestion names a category of the fixed set and no other
NamesValidCategory(r) ==
  IF r.kind = "fallbackText" THEN r.category \in CategorySet
  ELSE /\ \E i \in 1..Len(r.text) : r.text[i] \in CategoryLines
       /\ \A i \in 1..Len(r.text) :
            r.text[i] \in CategoryLines
              => r.text[i] \in {"Category: " \o c : c \in CategorySet}

NamesValidPriority(r) ==
  IF r.kind = "fallbackText" THEN r.priority \in PrioritySet
  ELSE /\ \E i \in 1..Len(r.text) : r.text[i] \in PriorityLines
       /\ \A i \in 1..Len(r.text) :
            r.text[i] \in PriorityLines
              => r.text[i] \in {"Priority: " \o q : q \in PrioritySet}

SuggestReturned == call.mode = "suggest" /\ call.pc = "done" /\ ~call.raised

C4_FatalErrorEndsCall ==
  \A i \in 1..Len(call.log) :
    call.log[i] \in FatalOutcomes
      => /\ i = Len(call.log)
         /\ call.pc = "done"
         /\ Len(call.sleeps) = i - 1
         /\ \A j \in 1..(i - 1) : call.log[j] \in ThrottlingOutcomes
         /\ ~call.raised
         /\ IsFallbackResult(call.ret)
         /\ (call.mode = "suggest" => call.ret.kind = "fallbackText")

C4_Witness ==
  /\ call.mode = "suggest"
  /\ call.pc = "done"
  /\ Len(call.log) = 1
  /\ call.log[1] \in FatalOutcomes
  /\ call.sleeps = <<>>
  /\ call.ret.kind = "fallbackText"

IsBlank(text) == Len(trim(text)) = 0

ParseReturned == call.mode = "parse" /\ call.pc = "done"

\* C6: for a non-empty input parseNaturalLanguageTask raises no error, and
\* when the remote call failed, when the response holds no JSON object or
\* when the extracted text is not valid JSON, it returns what
\* parseTaskFallback returns for the same input.
C6_ParseFallsBack ==
  (ParseReturned /\ call.text # <<>>)
    => /\ ~call.raised
       /\ call.status # 500
       /\ ( \/ Last(call.log) # "ok"
            \/ jsonMatch(call.response) = <<>>
            \/ ~jsonValid(jsonMatch(call.response)) )
            => call.ret = parseTaskFallback(call.text)

C6_Witness ==
  /\ ParseReturned
  /\ call.text # <<>>
  /\ Last(call.log) = "ok"
  /\ jsonMatch(call.response) # <<>>
  /\ ~jsonValid(jsonMatch(call.response))
  /\ call.ret.kind = "parsedFallback"

\* C7, as claimed: every value returned by parseNaturalLanguageTask has the
\* fields title, description and category; a response whose JSON object
\* lacks one of them is discarded for the fallback result.
C7_ParsedTaskHasAllFields ==
  (ParseReturned /\ ~call.raised)
    => \/ call.ret.kind = "parsedFallback"
       \/ (call.ret.kind = "json" /\ FieldTokens \subseteq call.ret.fields)

\* The order in which the categories are declared
DeclaredOrder ==
  <<"Shopping", "Work", "Health", "Learning", "Finance", "Home", "Social",
    "Travel", "Creative">>

GenericTips ==
  <<"Break this task into smaller steps", "Set a specific deadline",
    "Review progress regularly">>

\* The number of keywords of the i-th category that occur in the text
KeywordCount(i, text) ==
  LET lower == toLowerCase(text)
      kws == categoryRules[i].keywords
  IN  Cardinality({k \in 1..Len(kws) : includes(lower, kws[k])})

MaxKeywordCount(text) == MaxOf({KeywordCount(i, text) : i \in 1..Len(DeclaredOrder)})

\* The first declared category among those with the greatest count
FirstWithMaxCount(text) ==
  LET top == MaxKeywordCount(text)
  IN  MinOf({i \in 1..Len(DeclaredOrder) : KeywordCount(i, text) = top})

\* C8: the fallback chooses the category with the greatest number of
\* keywords occurring in the lower-cased text, the first declared one when
\* several share the maximum, and General with the generic three tips when
\* no keyword occurs.
C8_CategoryByKeywordCount ==
  /\ Len(categoryRules) = Len(DeclaredOrder)
  /\ \A i \in 1..Len(DeclaredOrder) : categoryRules[i].category = DeclaredOrder[i]
  /\ fop = "bestMatch" =>
       IF MaxKeywordCount(fin) = 0
       THEN fout.category = "General" /\ fout.tips = GenericTips
       ELSE /\ fout.category = DeclaredOrder[FirstWithMaxCount(fin)]
            /\ fout.tips = categoryRules[FirstWithMaxCount(fin)].tips
  /\ fop = "suggest" =>
       fout.category = IF MaxKeywordCount(fin) = 0 THEN "General"
                       ELSE DeclaredOrder[FirstWithMaxCount(fin)]

\* Two categories share a positive maximum and the earlier one is chosen
C8_Witness ==
  /\ fop = "bestMatch"
  /\ MaxKeywordCount(fin) > 0
  /\ \E i, j \in 1..Len(DeclaredOrder) :
       /\ i < j
       /\ KeywordCount(i, fin) = MaxKeywordCount(fin)
       /\ KeywordCount(j, fin) = MaxKeywordCount(fin)
       /\ fout.category = DeclaredOrder[i]

HasHighMarker(text) ==
  \E i \in 1..Len(highPriorityWords) : includes(toLowerCase(text), highPriorityWords[i])
HasLowMarker(text) ==
  \E i \in 1..Len(lowPriorityWords) : includes(toLowerCase(text), lowPriorityWords[i])

\* C9: the fallback priority is high whenever the text holds a high-priority
\* marker, also when it holds a low-priority marker too; low only when it
\* holds a low-priority marker and no high-priority marker; else medium.
C9_PriorityHighBeforeLow ==
  fop = "suggest" =>
    /\ HasHighMarker(fin) => fout.priority = "high"
    /\ fout.priority = "low" <=> (HasLowMarker(fin) /\ ~HasHighMarker(fin))
    /\ (~HasHighMarker(fin) /\ ~HasLowMarker(fin)) => fout.priority = "medium"

C9_Witness ==
  /\ fop = "suggest"
  /\ HasHighMarker(fin)
  /\ HasLowMarker(fin)
  /\ fout.priority = "high"

\* The place of the first sentence terminator of a text, 0 when it has none
FirstTerminator(text) ==
  LET at == {i \in 1..Len(text) : text[i] \in Terminators}
  IN  IF at = {} THEN 0 ELSE MinOf(at)

\* C10, as claimed, for an input T + terminator + R whose T is not blank:
\* parseTaskFallback returns title = T trimmed and description = R trimmed.
C10_TitleAndRemainder ==
  (fop = "parse" /\ FirstTerminator(fin) > 0
     /\ ~IsBlank(SubSeq(fin, 1, FirstTerminator(fin) - 1)))
    => /\ fout.title = trim(SubSeq(fin, 1, FirstTerminator(fin) - 1))
       /\ fout.description = trim(SubSeq(fin, FirstTerminator(fin) + 1, Len(fin)))

\* The greatest attempt number the delay function is evaluated at
MaxAttemptIndex == 5

\* The delays the claim lists, by attempt number 0, 1, 2, 3
ListedDelays == <<500, 1000, 2000, 4000>>

\* C11: the delay slept after throttled attempt number k is
\* min(baseDelayMs * 2^k, maxDelayMs), that is 500, 1000, 2000 and from
\* k = 3 on 4000; the delays slept in one call are non-decreasing and none
\* exceeds maxDelayMs.
C11_BackoffDelays ==
  /\ \A i \in 1..Len(call.sleeps) :
       /\ call.sleeps[i] = MinOf({baseDelayMs * (2 ^ (i - 1)), maxDelayMs})
       /\ call.sleeps[i] = ListedDelays[i]
       /\ call.sleeps[i] <= maxDelayMs
       /\ i > 1 => call.sleeps[i - 1] <= call.sleeps[i]
       /\ call.log[i] \in ThrottlingOutcomes
  /\ \A k \in 0..MaxAttemptIndex :
       /\ backoffDelay(k) = ListedDelays[MinOf({k + 1, Len(ListedDelays)})]
       /\ backoffDelay(k) <= maxDelayMs
       /\ k > 0 => backoffDelay(k - 1) <= backoffDelay(k)

C11_Witness ==
  /\ call.sleeps = <<500, 1000, 2000>>
  /\ AllThrottled(call)
  /\ backoffDelay(MaxAttemptIndex) = maxDelayMs

\* C12, as claimed: a remote attempt that never answers cannot block a call
\* forever; every call that is waiting for the remote endpoint eventually
\* goes on and returns.
C12_HungAttemptIsTimedOut == (call.pc = "sending") ~> (call.pc = "done")

(***************************************************************************)
(* Properties of the todo API.                                             *)
(***************************************************************************)
\* The title of a create request is missing, empty or white space only
TitleBlank(body) == ~has(body, "title") \/ IsBlank(body.title)

\* The items the table holds under a key, read off the table itself
HeldUnder(store, userId, todoId) ==
  {i \in store : i.userId = userId /\ i.todoId = todoId}

\* C13: create-todo with a missing, empty or whitespace-only title answers
\* 400 and has no effect: nothing is written to the table, no event is
\* published and no AI suggestion is requested.
C13_BlankTitleRejected ==
  [][(/\ api'.resp.op = "create"
      /\ ~has(api'.resp.request, "malformed")
      /\ TitleBlank(api'.resp.request))
       => /\ api'.resp.status = 400
          /\ api'.resp.effects = <<>>
          /\ api'.resp.published = {}
          /\ api'.store = api.store
          /\ api'.nextId = api.nextId]_vars

C13_Witness ==
  /\ api.resp.op = "create"
  /\ api.resp.status = 400
  /\ has(api.resp.request, "title")
  /\ api.resp.request.title = X_blank
  /\ api.resp.request.generateSuggestions
  /\ api.store # {}

\* C14: after create-todo answers 201 the table holds the returned todo
\* under (caller, returned todoId), with status pending, the trimmed title,
\* the requested priority or medium, and createdAt = updatedAt; and a
\* get-todo of the same caller for that id that the store answers returns
\* 200 with that todo as long as no update or delete of the key intervened.
C14_CreatedTodoIsStoredAndServed ==
  /\ (api.resp.op = "create" /\ api.resp.status = 201)
       => /\ HeldUnder(api.store, api.resp.user, api.resp.data.todoId)
               = {api.resp.data}
          /\ api.resp.data.status = "pending"
          /\ api.resp.data.title = trim(api.resp.request.title)
          /\ api.resp.data.priority =
               (IF has(api.resp.request, "priority")
                THEN api.resp.request.priority ELSE "medium")
          /\ api.resp.data.createdAt = api.resp.data.updatedAt
  /\ (api.resp.op = "get" /\ api.resp.effects = <<"get">>)
       => \A t \in api.served :
            (t.userId = api.resp.user /\ t.todoId = api.resp.path.id)
              => (api.resp.status = 200 /\ api.resp.data = t)

C14_Witness ==
  /\ api.resp.op = "get"
  /\ api.resp.status = 200
  /\ api.resp.data \in api.served
  /\ api.resp.data.title = F_Buy
  /\ api.resp.data.priority = "high"
  /\ api.clock = MaxClock

\* C15: get-todo answers 400 without reading the table when the path has
\* no id; when the table answers the read, 404 when it holds no item under
\* (caller, id) and 200 with the held item otherwise; it never modifies the
\* table.
C15_GetTodoOutcomes ==
  [][api'.resp.op = "get"
       => /\ api'.store = api.store
          /\ api'.resp.published = {}
          /\ ~has(api'.resp.path, "id")
               => (api'.resp.status = 400 /\ api'.resp.effects = <<>>)
          /\ has(api'.resp.path, "id")
               => /\ api'.resp.effects \in {<<"get">>, <<"getFailed">>}
                  /\ api'.resp.effects = <<"get">>
                       => LET held == HeldUnder(api.store, api'.resp.user,
                                                api'.resp.path.id)
                          IN  IF held = {} THEN api'.resp.status = 404
                              ELSE /\ api'.resp.status = 200
                                   /\ api'.resp.data \in held]_vars

C15_Witness ==
  /\ api.resp.op = "get"
  /\ api.resp.status = 404
  /\ \E i \in api.store : /\ i.todoId = api.resp.path.id
                          /\ i.userId # api.resp.user

\* C16, as claimed: every 'Todo Created' event a successful create-todo
\* publishes is put on the bus that carries the rule whose target is the AI
\* task processor, and so is delivered to it.
C16_CreatedEventReachesAiProcessor ==
  \A e \in api.resp.published :
    e.detailType = "Todo Created"
      => "AITaskProcessorFunction" \in targetsOf(e)

\* The todos of a list response, as a set
Listed(resp) == {resp.data.todos[n] : n \in 1..Len(resp.data.todos)}

\* C17, as claimed: when a user has more todos than the page limit, the
\* response to a request that passes back the lastKey of the previous
\* response is the following page: it holds none of the todos already
\* received, in particular not the todo lastKey names.
C17_NextPageFollowsLastKey ==
  (/\ api.resp.op = "list"
   /\ api.resp.status = 200
   /\ has(api.resp.request, "lastKey")
   /\ Cardinality({i \in api.store : i.userId = api.resp.user})
        > limitOf(api.resp.request))
    => \A t \in Listed(api.resp) : t.todoId # api.resp.request.lastKey.todoId

\* C18, as claimed: list-todos called with both a status and a category
\* returns only todos of the caller that match both.
C18_ListFiltersByStatusAndCategory ==
  (/\ api.resp.op = "list"
   /\ api.resp.status = 200
   /\ has(api.resp.request, "status")
   /\ has(api.resp.request, "category"))
    => \A t \in Listed(api.resp) :
         /\ t.userId = api.resp.user
         /\ has(t, "status") /\ t.status = api.resp.request.status
         /\ has(t, "category") /\ t.category = api.resp.request.category

StatusSet == {"pending", "in-progress", "completed", "archived"}

\* C19, as claimed: after any sequence of create, update and delete
\* requests every item of the table has a non-empty title, a status in
\* {pending, in-progress, completed, archived} and a priority in
\* {low, medium, high}.
C19_StoredTodosAreValid ==
  \A i \in api.store :
    /\ has(i, "title") /\ i.title # <<>>
    /\ has(i, "status") /\ i.status \in StatusSet
    /\ has(i, "priority") /\ i.priority \in PrioritySet

(***************************************************************************)
(* Properties of the response parsing.                                     *)
(***************************************************************************)
Braces == {"{", "}"}

\* The text from the first "{" to the first "}" after it
FirstObject(response) ==
  LET opens == {i \in 1..Len(response) : response[i] = "{"}
      closes == {i \in 1..Len(response) :
                   response[i] = "}" /\ opens # {} /\ i > MinOf(opens)}
  IN  IF opens = {} \/ closes = {} THEN <<>>
      ELSE SubSeq(response, MinOf(opens), MinOf(closes))

\* The response holds a well-formed object followed by text with a brace
ObjectThenBraces(response) ==
  LET object == FirstObject(response)
      opens == {i \in 1..Len(response) : response[i] = "{"}
  IN  /\ object # <<>>
      /\ \A i \in 2..(Len(object) - 1) : object[i] \in FieldTokens
      /\ \E j \in (MinOf(opens) + Len(object))..Len(response) :
           response[j] \in Braces

\* C20, as claimed: when the response text holds a well-formed JSON object
\* followed by further text that contains braces, parseNaturalLanguageTask
\* returns the first well-formed balanced object of the text and does not
\* fall back.
C20_FirstBalancedObjectIsReturned ==
  (/\ ParseReturned
   /\ call.log # <<>>
   /\ Last(call.log) = "ok"
   /\ ObjectThenBraces(call.response))
    => /\ call.ret.kind = "json"
       /\ LET object == FirstObject(call.response)
          IN  call.ret.fields = {object[i] : i \in 2..(Len(object) - 1)}


(***************************************************************************)
(* The parse fallback against the keyword-count algorithm.                 *)
(***************************************************************************)
\* The number of keywords of the i-th entry of the reduced table that occur
\* in the text
ChainKeywordCount(i, text) ==
  LET lower == toLowerCase(text)
      kws == parseCategoryChain[i].keywords
  IN  Cardinality({k \in 1..Len(kws) : includes(lower, kws[k])})

MaxChainKeywordCount(text) ==
  MaxOf({ChainKeywordCount(i, text) : i \in 1..Len(parseCategoryChain)})

\* Greatest count, first declared on a tie, General when no keyword occurs
CountCategoryOverChain(text) ==
  IF MaxChainKeywordCount(text) = 0 THEN "General"
  ELSE LET top == MaxChainKeywordCount(text)
           first == MinOf({i \in 1..Len(parseCategoryChain) :
                             ChainKeywordCount(i, text) = top})
       IN  parseCategoryChain[first].category

\* C21: for every input text the category returned by parseTaskFallback is
\* the one the keyword-count algorithm of the suggestion fallback (greatest
\* count, first declared on a tie, General on zero) yields over the reduced
\* keyword table of the parse fallback.
C21_ParseCategoryByKeywordCount ==
  fop = "parse" => fout.category = CountCategoryOverChain(fin)


(***************************************************************************)
(* The tip list of the fallback suggestion.                                *)
(***************************************************************************)
\* The canned tips declared for a category
CannedTipsOf(category) ==
  IF category = "General" THEN GenericTips
  ELSE LET i == CHOOSE k \in 1..Len(categoryRules) : categoryRules[k].category = category
       IN  categoryRules[i].tips

NoDuplicates(seq) ==
  \A i, j \in 1..Len(seq) : seq[i] = seq[j] => i = j

\* The task-specific tip is added to the list of this suggestion
TipAdded ==
  /\ fop = "suggest"
  /\ generateTaskSpecificTip(fin, fout.category) # NoTip
  /\ ~arrayIncludes(CannedTipsOf(fout.category), generateTaskSpecificTip(fin, fout.category))

\* C22: the tip list of every fallback suggestion has at most 3 entries and
\* no duplicates; at most one task-specific tip is added, only when it is
\* not already among the canned tips of the category, and when added it is
\* the first entry, followed by the first two canned tips in declared order.
C22_TipList ==
  fop = "suggest" =>
    LET canned == CannedTipsOf(fout.category)
        tip == generateTaskSpecificTip(fin, fout.category)
    IN  /\ Len(fout.tips) <= 3
        /\ NoDuplicates(fout.tips)
        /\ Cardinality({i \in 1..Len(fout.tips) : ~arrayIncludes(canned, fout.tips[i])}) <= 1
        /\ IF TipAdded
           THEN fout.tips = <<tip, canned[1], canned[2]>>
           ELSE fout.tips = canned

\* A suggestion whose first tip is the task-specific one, in a category
\* other than General
C22_Witness ==
  /\ TipAdded
  /\ fout.category # "General"
  /\ Len(fout.tips) = 3
  /\ fout.tips[1] = generateTaskSpecificTip(fin, fout.category)
  /\ fout.tips[2] = CannedTipsOf(fout.category)[1]


(***************************************************************************)
(* Concurrent calls.                                                       *)
(***************************************************************************)
\* The state a call running alone reaches from c when its remote attempts
\* have the outcomes i, i+1, ... of the list and every sleep is slept out
RECURSIVE soloRun(_, _, _)
soloRun(c, outcomes, i) ==
  IF i > Len(outcomes) \/ c.pc # "sending" THEN c
  ELSE LET after == IF outcomes[i].kind = "body"
                    THEN onResponse(c, outcomes[i].body)
                    ELSE onError(c, outcomes[i].error)
           rested == IF after.pc = "sleeping" THEN onWake(after) ELSE after
       IN  soloRun(rested, outcomes, i + 1)

\* The lone call with the input and the remote outcomes of caller k
SoloOf(k) ==
  soloRun(startCall("direct", calls.c[k].mode, calls.c[k].text), calls.seen[k], 1)

\* C23: concurrent calls are independent.  Under every interleaving the
\* attempts a call makes, the delays it sleeps and the result it returns
\* are those of a call running alone with the same input and the same
\* outcomes of its own remote attempts; and while a call is in a backoff
\* sleep, another call that awaits the remote endpoint can take its step.
C23_ConcurrentCallsIndependent ==
  /\ \A k \in Callers :
       calls.c[k].pc # "idle" =>
         /\ calls.c[k].log = SoloOf(k).log
         /\ calls.c[k].sleeps = SoloOf(k).sleeps
         /\ calls.c[k].pc = "sending" => calls.c[k] = SoloOf(k)
         /\ calls.c[k].pc = "done" => calls.c[k] = SoloOf(k)
  /\ \A a, b \in Callers :
       (a # b /\ calls.c[a].pc = "sleeping" /\ calls.c[b].pc = "sending")
         => ENABLED (\E outcome \in ConcOutcomes : ConcRemoteAnswers(b, outcome))

\* Two calls have returned; each was overtaken by the other while asleep,
\* and they made different numbers of attempts
C23_Witness ==
  /\ calls.c[1].pc = "done" /\ calls.c[2].pc = "done"
  /\ calls.overtaken[1] /\ calls.overtaken[2]
  /\ Len(calls.c[1].log) = 3 /\ Len(calls.c[2].log) = 2
  /\ calls.c[1].sleeps = <<500, 1000, 2000>>
  /\ calls.c[2].sleeps = <<500>>


(***************************************************************************)
(* Write requests: errors, events and the table.                           *)
(***************************************************************************)
WriteOps == {"create", "update", "delete"}

\* This step is the handling of a write request
WriteHandled == api.resp = NoResponse /\ api'.resp.op \in WriteOps

\* C24, as claimed: when create-todo, update-todo or delete-todo answers
\* 500 the table is exactly as it was before the request, also when it is
\* the event publish after the store write that failed.
C24_ErrorLeavesStoreUnchanged ==
  [][(WriteHandled /\ api'.resp.status = 500) => api'.store = api.store]_vars

\* C25, as claimed: update-todo never creates an item.  When the table
\* holds nothing under (caller, todoId) the request leaves it so, does not
\* answer 200 and publishes no 'Todo Updated' event.
C25_UpdateNeverCreates ==
  [][(/\ api.resp = NoResponse
      /\ api'.resp.op = "update"
      /\ has(api'.resp.path, "id")
      /\ HeldUnder(api.store, api'.resp.user, api'.resp.path.id) = {})
       => /\ HeldUnder(api'.store, api'.resp.user, api'.resp.path.id) = {}
          /\ api'.resp.status # 200
          /\ api'.resp.published = {}]_vars

\* The items of the table that are not the user's
ItemsOfOthers(store, user) == {i \in store : i.userId # user}

\* The API as the user alone sees it: the table without the others' items
OwnView(a, user) == [a EXCEPT !.store = {i \in a.store : i.userId = user}]

\* C26: todos are isolated per user.  A request of one user leaves the
\* items under every other userId as they were, and the response to a
\* get-todo or list-todos request is one the handler gives on the caller's
\* own items alone: every key read or written is the caller's.
C26_UserIsolation ==
  [][/\ api'.resp.op # "none"
          => ItemsOfOthers(api'.store, api'.resp.user)
               = ItemsOfOthers(api.store, api'.resp.user)
     /\ api'.resp.op = "get"
          => api'.resp = getTodo(OwnView(api, api'.resp.user), api'.resp.user,
                                 api'.resp.path,
                                 api'.resp.effects # <<"getFailed">>).resp
     /\ api'.resp.op = "list"
          => \E answer \in QueryAnswers :
               api'.resp = listTodos(OwnView(api, api'.resp.user),
                                     api'.resp.user, api'.resp.request,
                                     answer).resp]_vars

\* One user lists their pending todos while the table holds pending todos
\* of the other user too
C26_Witness ==
  /\ api.resp.op = "list"
  /\ api.resp.status = 200
  /\ given(api.resp.request, "status")
  /\ api.resp.data.count > 0
  /\ \A t \in Listed(api.resp) : t.userId = api.resp.user
  /\ \E i \in api.store : i.userId # api.resp.user /\ i.status = api.resp.request.status

\* The store operation and the event type of each write request
WriteEffect == [create |-> "put", update |-> "update", delete |-> "delete"]
WriteEvent ==
  [create |-> "Todo Created", update |-> "Todo Updated", delete |-> "Todo Deleted"]

\* How often an effect occurs among the effects of a response
Occurrences(effects, e) == Cardinality({n \in 1..Len(effects) : effects[n] = e})

\* The store write of the request has taken place in the table
WriteTookPlace ==
  LET held == HeldUnder(api'.store, api'.resp.user,
                        IF api'.resp.op = "create" THEN api.nextId
                        ELSE api'.resp.path.id)
  IN  IF api'.resp.op = "delete" THEN held = {}
      ELSE held # {} /\ \A i \in held : i.updatedAt = api'.clock

\* C27: in create-todo, update-todo and delete-todo the event is published
\* only after the store write of the request has completed successfully,
\* at most once per request, and no event is published when the store
\* write fails.
C27_EventAfterSuccessfulWrite ==
  [][WriteHandled =>
       LET r == api'.resp
           write == WriteEffect[r.op]
       IN  /\ Cardinality(r.published) <= 1
           /\ Occurrences(r.effects, "publish") = Cardinality(r.published)
           /\ r.published # {}
                => /\ Len(r.effects) >= 2
                   /\ r.effects[Len(r.effects)] = "publish"
                   /\ r.effects[Len(r.effects) - 1] = write
                   /\ Occurrences(r.effects, write) = 1
                   /\ \A e \in r.published :
                        /\ e.detailType = WriteEvent[r.op]
                        /\ e.detail.userId = r.user
                   /\ WriteTookPlace
           /\ write \notin {r.effects[n] : n \in 1..Len(r.effects)}
                => (r.published = {} /\ api'.store = api.store)]_vars

\* A delete request removed a todo and then published its event
C27_Witness ==
  /\ api.resp.op = "delete"
  /\ api.resp.effects = <<"delete", "publish">>
  /\ \E e \in api.resp.published : e.detailType = "Todo Deleted"
  /\ HeldUnder(api.store, api.resp.user, api.resp.path.id) = {}
  /\ api.resp.path.id # UnknownId


(***************************************************************************)
(* Sleeps and throttled attempts.                                          *)
(***************************************************************************)
\* C28: in one call the number of backoff sleeps equals the number of
\* throttled attempts.  A sleep also follows the last throttled attempt:
\* when the loop is exhausted the step after the sleep makes no further
\* attempt and the call ends with the throttled error, so that a sleep is
\* not always followed by another remote attempt.
C28_SleepAfterEveryThrottledAttempt ==
  /\ [](/\ Len(call.sleeps) = NumThrottled(call)
        /\ call.pc = "sleeping" => Last(call.log) \in ThrottlingOutcomes)
  /\ [][call.pc = "sleeping"
          => /\ call'.log = call.log
             /\ call'.sleeps = call.sleeps
             /\ IF Len(call.log) < maxRetries
                THEN call'.pc = "sending"
                ELSE /\ call'.pc = "done"
                     /\ Len(call.sleeps) = maxRetries
                     /\ isThrottling(call'.lastError)
                     /\ call'.response = <<>>
                     /\ call'.ret = wrapperOnThrow(call.mode, call.text).value]_vars

\* The third attempt was throttled, its sleep was slept and the call ended
\* without a fourth attempt
C28_Witness ==
  /\ call.pc = "done"
  /\ Len(call.log) = maxRetries
  /\ Last(call.log) \in ThrottlingOutcomes
  /\ Len(call.sleeps) = maxRetries
  /\ call.attempt = maxRetries


(***************************************************************************)
(* The Limit of list-todos.                                                *)
(***************************************************************************)
\* C29, as claimed: for every value of the limit query parameter (absent,
\* non-numeric, zero, negative, larger than 100) the Limit list-todos
\* passes to the store query is an integer in 1..100, and it is 20 when the
\* parameter is absent or not a number.
C29_LimitInRange ==
  fop = "limit" =>
    /\ fout.Limit \in 1..MaxLimit
    /\ (~has(fin, "limit") \/ parseInt(fin.limit).nan) => fout.Limit = DefaultLimit


(***************************************************************************)
(* The stream consumer.                                                    *)
(***************************************************************************)
\* The record has no new image, no old image and no keys
LacksAll(record) ==
  \/ ~has(record, "dynamodb")
  \/ DOMAIN record.dynamodb \cap {"NewImage", "OldImage", "Keys"} = {}

\* The records the loop has gone through
Passed == 1..(stream.pos - 1)

PutsWith(ok) == {n \in 1..Len(stream.puts) : stream.puts[n].ok = ok}

\* C30: the stream consumer goes through the records of the batch one at a
\* time in batch order and attempts to publish each record at most once; a
\* failed publish does not stop the records after it from being processed
\* and never makes the handler fail; and successCount + errorCount + the
\* number of records skipped for having no image and no keys is the number
\* of records gone through, at the end the number of records of the batch.
C30_StreamBatchProcessing ==
  /\ ~stream.raised
  /\ \A i, j \in 1..Len(stream.puts) :
       i < j => stream.puts[i].record < stream.puts[j].record
  /\ {stream.puts[n].record : n \in 1..Len(stream.puts)}
       = {n \in Passed : ~LacksAll(stream.records[n])}
  /\ stream.successCount = Cardinality(PutsWith(TRUE))
  /\ stream.errorCount = Cardinality(PutsWith(FALSE))
  /\ stream.skipped = Cardinality({n \in Passed : LacksAll(stream.records[n])})
  /\ stream.successCount + stream.errorCount + stream.skipped = stream.pos - 1
  /\ stream.pc = "done"
       => /\ stream.pos = Len(stream.records) + 1
          /\ stream.successCount + stream.errorCount + stream.skipped
               = Len(stream.records)
          /\ stream.metrics[1].value = stream.successCount
          /\ stream.metrics[2].value = stream.errorCount

\* The publish of the first record failed, the second record was skipped
\* and the third was published
C30_Witness ==
  /\ stream.pc = "done"
  /\ Len(stream.records) = 3
  /\ Len(stream.puts) = 2
  /\ stream.puts[1].record = 1 /\ ~stream.puts[1].ok
  /\ stream.puts[2].record = 3 /\ stream.puts[2].ok
  /\ stream.skipped = 1 /\ stream.errorCount = 1 /\ stream.successCount = 1

=============================================================================
